---- MODULE Spec2Model ----
(***************************************************************************)
(* Conway's Game of Life (src/main.py): the Cell / Grid state model, the   *)
(* neighbour computation, the update rule, and the Game driving loop.      *)
(***************************************************************************)
EXTENDS Integers, Sequences, FiniteSets, TLC

VARIABLES
    grid,       \* the Grid object: [n_rows, n_cols, cell_size, cells]
    op,         \* the last operation performed on the grid
    args,       \* the arguments of that operation, where they are recorded
    outcome,    \* how that operation ended: "ok" or the exception raised
    n_toggled,  \* how many Cell.toggle() calls that operation made
    start,      \* the alive cells when the first generation began
    pending,    \* update in steps: the cells rule has not been asked about
    collected,  \* update in steps: the cells kept by rule, not yet toggled
    running,    \* Game.running
    paused,     \* Game.paused
    pc          \* position of Game.run in its loop

vars == <<grid, op, args, outcome, n_toggled, start, pending, collected,
          running, paused, pc>>

pass == <<pending, collected>>

driver == <<running, paused, pc>>

(***************************************************************************)
(* Bounds of the model.                                                    *)
(***************************************************************************)
\* Grids of the Grid-level specification hold at most this many cells.
MaxCells == 9
\* Cell sizes range over 1..MaxCellSize.
MaxCellSize == 2
\* Grids of the specification of toggle calls hold at most this many cells.
MaxToggleCells == 4
\* Patterns are laid out on a square grid of PatSize rows and columns
\* and hold at most MaxPatCells alive cells.
PatSize == 5
MaxPatCells == 4
\* Grids of the specification of update in steps hold at most this many
\* cells.
MaxOrderCells == 6
\* Grids of the Game hold at most this many cells, and one call of
\* pygame.event.get() returns at most MaxEvents events.
MaxGameCells == 2
MaxEvents == 2

(***************************************************************************)
(* Python / numpy primitives the code uses.                                *)
(***************************************************************************)
max(a, b) == IF a >= b THEN a ELSE b

min(a, b) == IF a <= b THEN a ELSE b

\* range(a, b): the sequence a, a+1, ..., b-1 (empty when b <= a).
range(a, b) == [k \in 1..max(b - a, 0) |-> a + k - 1]

\* sum() over a sequence of booleans (True counts 1, False counts 0).
RECURSIVE sum(_)
sum(s) ==
    IF s = <<>> THEN 0
    ELSE (IF Head(s) THEN 1 ELSE 0) + sum(Tail(s))

\* numpy's indexing on an axis of length n: an index outside [-n, n) raises
\* IndexError, and a negative index inside it counts from the end.
IndexError == "IndexError"

index_in_bounds(k, n) == -n <= k /\ k < n

normalize_index(k, n) == IF k < 0 THEN k + n ELSE k

(***************************************************************************)
(* Cell                                                                    *)
(***************************************************************************)
\* pygame.Rect(left, top, width, height)
Rect(left, top, width, height) ==
    [left |-> left, top |-> top, width |-> width, height |-> height]

\* Cell.__init__
Cell(i, j, size) ==
    [i |-> i, j |-> j, rect |-> Rect(i * size, j * size, size, size),
     alive |-> FALSE]

\* Faulty toggle: the cell is made alive whatever it was.
Cell_revive(cell) == [cell EXCEPT !.alive = TRUE]

\* Cell.toggle
Cell_toggle(cell) == [cell EXCEPT !.alive = ~cell.alive]

(***************************************************************************)
(* Grid                                                                    *)
(***************************************************************************)
\* Faulty constructor: the Cell stored at [i][j] is built with the indices
\* swapped.
Grid_swapped(n_rows, n_cols, cell_size) ==
    [n_rows |-> n_rows, n_cols |-> n_cols, cell_size |-> cell_size,
     cells |-> [p \in (0..(n_rows - 1)) \X (0..(n_cols - 1)) |->
                    Cell(p[2], p[1], cell_size)]]

\* Grid.__init__: cells[<<i, j>>] is the Cell built for row i, column j.
Grid(n_rows, n_cols, cell_size) ==
    [n_rows |-> n_rows, n_cols |-> n_cols, cell_size |-> cell_size,
     cells |-> [p \in (0..(n_rows - 1)) \X (0..(n_cols - 1)) |->
                    Cell(p[1], p[2], cell_size)]]

\* The grid with exactly the cells of alive_cells alive.
At(self, alive_cells) ==
    [self EXCEPT !.cells =
        [p \in DOMAIN self.cells |->
            [self.cells[p] EXCEPT !.alive = (p \in alive_cells)]]]

\* Faulty neighbours: the index ranges wrap around to the opposite edge.
neighbors_wrapping(self, cell) ==
    LET rows == [k \in 1..3 |-> (cell.i - 2 + k) % self.n_rows]
        cols == [k \in 1..3 |-> (cell.j - 2 + k) % self.n_cols]
        pairs == [k \in 1..9 |->
                    <<rows[((k - 1) \div 3) + 1], cols[((k - 1) % 3) + 1]>>]
        kept == SelectSeq(pairs,
                    LAMBDA p : ~(p[1] = cell.i /\ p[2] = cell.j))
    IN  [k \in 1..Len(kept) |-> self.cells[kept[k]]]

\* Faulty neighbours: the cell itself is not filtered out.
neighbors_with_self(self, cell) ==
    LET rows == range(max(cell.i - 1, 0), min(cell.i + 2, self.n_rows))
        cols == range(max(cell.j - 1, 0), min(cell.j + 2, self.n_cols))
        pairs == [k \in 1..(Len(rows) * Len(cols)) |->
                    <<rows[((k - 1) \div Len(cols)) + 1],
                      cols[((k - 1) % Len(cols)) + 1]>>]
    IN  [k \in 1..Len(pairs) |-> self.cells[pairs[k]]]

\* Grid.neighbors: the nested comprehension, i outer and j inner, without
\* the cell itself.
neighbors(self, cell) ==
    LET rows == range(max(cell.i - 1, 0), min(cell.i + 2, self.n_rows))
        cols == range(max(cell.j - 1, 0), min(cell.j + 2, self.n_cols))
        pairs == [k \in 1..(Len(rows) * Len(cols)) |->
                    <<rows[((k - 1) \div Len(cols)) + 1],
                      cols[((k - 1) % Len(cols)) + 1]>>]
        kept == SelectSeq(pairs,
                    LAMBDA p : ~(p[1] = cell.i /\ p[2] = cell.j))
    IN  [k \in 1..Len(kept) |-> self.cells[kept[k]]]

\* Grid.count_alive_neighbors
count_alive_neighbors(self, cell) ==
    LET ns == neighbors(self, cell)
    IN  sum([k \in 1..Len(ns) |-> ns[k].alive])

\* Faulty rule: an alive cell survives with 2 alive neighbours only.
rule_survive_on_two(self, cell) ==
    \/ cell.alive /\ ~(count_alive_neighbors(self, cell) = 2)
    \/ ~cell.alive /\ count_alive_neighbors(self, cell) = 3

\* Faulty rule: a dead cell is born with up to 3 alive neighbours.
rule_birth_up_to_three(self, cell) ==
    \/ cell.alive /\ ~(2 <= count_alive_neighbors(self, cell)
                        /\ count_alive_neighbors(self, cell) <= 3)
    \/ ~cell.alive /\ count_alive_neighbors(self, cell) <= 3

\* Grid.rule: must the cell's state be flipped?  (The chained comparison
\* 2 <= n <= 3 evaluates the count once.)
rule(self, cell) ==
    \/ cell.alive /\ LET n == count_alive_neighbors(self, cell)
                     IN  ~(2 <= n /\ n <= 3)
    \/ ~cell.alive /\ count_alive_neighbors(self, cell) = 3

\* self.cells.flatten(): the cells in row-major order.
flatten(self) ==
    [k \in 1..(self.n_rows * self.n_cols) |->
        self.cells[<<(k - 1) \div self.n_cols, (k - 1) % self.n_cols>>]]

\* "for cell in cells_to_toggle: cell.toggle()": each listed Cell object
\* (the one stored at its own index pair) is toggled, in list order.
RECURSIVE toggle_each(_, _)
toggle_each(cells, cells_to_toggle) ==
    IF cells_to_toggle = <<>> THEN cells
    ELSE LET c == Head(cells_to_toggle)
         IN  toggle_each(
                 [cells EXCEPT ![<<c.i, c.j>>] = Cell_toggle(@)],
                 Tail(cells_to_toggle))

\* list(filter(self.rule, ...)): the visited cells that rule keeps, in the
\* order visited; rule reads the grid as it is before any toggle.
cells_to_toggle(self, visited) ==
    SelectSeq(visited, LAMBDA cell : rule(self, cell))

\* A faulty update: each cell is toggled as soon as rule keeps it, so the
\* rule of a later cell reads cells already flipped (filter left lazy).
RECURSIVE toggle_while_filtering(_, _)
toggle_while_filtering(self, k) ==
    IF k > self.n_rows * self.n_cols THEN self
    ELSE LET cell == flatten(self)[k]
         IN  toggle_while_filtering(
                 IF rule(self, cell)
                 THEN [self EXCEPT !.cells[<<cell.i, cell.j>>] = Cell_toggle(@)]
                 ELSE self,
                 k + 1)

update_in_place(self) == toggle_while_filtering(self, 1)

\* A faulty filter step (filter left lazy): the cell rule keeps is toggled
\* at once, before rule is asked about the next cell.
filter_step_eager(self, kept, cell) ==
    [self |-> IF rule(self, cell)
              THEN [self EXCEPT !.cells[<<cell.i, cell.j>>] = Cell_toggle(@)]
              ELSE self,
     kept |-> kept]

\* One step of filter(self.rule, ...): rule is asked about one cell, and the
\* cell joins the kept ones when rule says so; the grid is only read.
filter_step(self, kept, cell) ==
    [self |-> self,
     kept |-> IF rule(self, cell) THEN kept \cup {<<cell.i, cell.j>>}
              ELSE kept]

\* Grid.update: filter every cell through rule, then toggle the kept ones.
update(self) ==
    [self EXCEPT !.cells =
        toggle_each(self.cells, cells_to_toggle(self, flatten(self)))]

\* Faulty toggle: every cell of row i is toggled.
toggle_whole_row(self, i, j) ==
    LET row == normalize_index(i, self.n_rows)
    IN  IF ~index_in_bounds(i, self.n_rows) \/ ~index_in_bounds(j, self.n_cols)
        THEN [self |-> self, raised |-> IndexError]
        ELSE [self |-> [self EXCEPT !.cells =
                          [p \in DOMAIN self.cells |->
                              IF p[1] = row THEN Cell_toggle(self.cells[p])
                              ELSE self.cells[p]]],
              raised |-> "ok"]

\* Grid.toggle: self.cells[i][j] is indexed axis by axis, then toggled.
\* Returns the grid afterwards and the exception raised, if any.
toggle(self, i, j) ==
    LET row == normalize_index(i, self.n_rows)
        col == normalize_index(j, self.n_cols)
    IN  IF ~index_in_bounds(i, self.n_rows) \/ ~index_in_bounds(j, self.n_cols)
        THEN [self |-> self, raised |-> IndexError]
        ELSE [self |-> [self EXCEPT !.cells[<<row, col>>] = Cell_toggle(@)],
              raised |-> "ok"]

(***************************************************************************)
(* Views of a grid: its index pairs, and those of its alive cells.         *)
(***************************************************************************)
Positions(self) == (0..(self.n_rows - 1)) \X (0..(self.n_cols - 1))

Alive(self) == {p \in Positions(self) : self.cells[p].alive}

\* The number of cells whose alive value differs between two states of
\* the grid: update() toggles each cell it keeps once, so this is the
\* number of Cell.toggle() calls of an update.
flipped(before, after) ==
    Cardinality({p \in Positions(before) :
                    after.cells[p].alive # before.cells[p].alive})

Abs(x) == IF x < 0 THEN -x ELSE x

\* The index pairs adjacent to p (diagonals included) that lie in the grid.
Adjacent(self, p) ==
    {q \in Positions(self) :
        /\ Abs(q[1] - p[1]) <= 1
        /\ Abs(q[2] - p[2]) <= 1
        /\ q # p}

AliveAdjacent(self, p) == Cardinality(Adjacent(self, p) \cap Alive(self))

\* The next generation of cell p, read from self only (double-buffered).
AliveNext(self, p) ==
    \/ self.cells[p].alive /\ AliveAdjacent(self, p) \in {2, 3}
    \/ ~self.cells[p].alive /\ AliveAdjacent(self, p) = 3

IsCorner(self, p) ==
    p[1] \in {0, self.n_rows - 1} /\ p[2] \in {0, self.n_cols - 1}

IsInterior(self, p) ==
    /\ 0 < p[1] /\ p[1] < self.n_rows - 1
    /\ 0 < p[2] /\ p[2] < self.n_cols - 1

IsEdge(self, p) == ~IsCorner(self, p) /\ ~IsInterior(self, p)

(***************************************************************************)
(* The Grid under arbitrary sequences of update(), toggle(i, j) and draw()  *)
(* calls.                                                                  *)
(***************************************************************************)
\* Index arguments tried on an axis of length n: every valid index, the
\* first index past the end, and the negative indices -1 and -(n + 1).
IndexArgs(n) == (0..n) \cup {-1, -(n + 1)}

\* The state after Grid(n_rows, n_cols, cell_size), for every grid of at
\* most max_cells cells.
Constructed(max_cells) ==
    /\ \E n_rows \in 1..max_cells, n_cols \in 1..max_cells,
          cell_size \in 1..MaxCellSize :
            /\ n_rows * n_cols <= max_cells
            /\ grid = Grid(n_rows, n_cols, cell_size)
    /\ op = "init"
    /\ args = <<>>
    /\ outcome = "ok"
    /\ n_toggled = 0
    /\ start = {}
    /\ pending = {}
    /\ collected = {}
    /\ running = TRUE
    /\ paused = TRUE
    /\ pc = "api"

GridInit == Constructed(MaxCells)

Update ==
    /\ pc = "api"
    /\ grid' = update(grid)
    /\ op' = "update"
    /\ outcome' = "ok"
    /\ n_toggled' = flipped(grid, grid')
    /\ UNCHANGED <<args, start, pass, driver>>

Toggle(i, j) ==
    /\ pc = "api"
    /\ grid' = toggle(grid, i, j).self
    /\ op' = "toggle"
    /\ outcome' = toggle(grid, i, j).raised
    /\ n_toggled' = IF toggle(grid, i, j).raised = "ok" THEN 1 ELSE 0
    /\ UNCHANGED <<args, start, pass, driver>>

\* Grid.draw(surface): the lines and the rectangles go to the surface, the
\* grid is only read.
DrawGrid ==
    /\ pc = "api"
    /\ op' = "draw"
    /\ outcome' = "ok"
    /\ n_toggled' = 0
    /\ UNCHANGED <<grid, args, start, pass, driver>>

GridNext ==
    \/ Update
    \/ \E i \in IndexArgs(grid.n_rows), j \in IndexArgs(grid.n_cols) :
            Toggle(i, j)
    \/ DrawGrid

GridSpec == GridInit /\ [][GridNext]_vars

(***************************************************************************)
(* Single toggle(i, j) calls, the arguments of each call kept in args and  *)
(* the cells alive before the call in start.                               *)
(***************************************************************************)
ToggleInit == Constructed(MaxToggleCells)

CallToggle(i, j) ==
    /\ pc = "api"
    /\ grid' = toggle(grid, i, j).self
    /\ op' = "toggle"
    /\ args' = <<i, j>>
    /\ outcome' = toggle(grid, i, j).raised
    /\ n_toggled' = IF toggle(grid, i, j).raised = "ok" THEN 1 ELSE 0
    /\ start' = Alive(grid)
    /\ UNCHANGED <<pass, driver>>

ToggleNext ==
    \E i \in IndexArgs(grid.n_rows), j \in IndexArgs(grid.n_cols) :
        CallToggle(i, j)

ToggleSpec == ToggleInit /\ [][ToggleNext]_vars

(***************************************************************************)
(* Patterns: on an all-dead square grid a connected pattern of alive cells *)
(* is laid out by toggling dead cells, each next to an alive one, then the *)
(* generations run, update() after update().                               *)
(***************************************************************************)
PatternInit ==
    /\ grid = Grid(PatSize, PatSize, MaxCellSize)
    /\ op = "init"
    /\ args = <<>>
    /\ outcome = "ok"
    /\ n_toggled = 0
    /\ start = {}
    /\ pending = {}
    /\ collected = {}
    /\ running = TRUE
    /\ paused = TRUE
    /\ pc = "api"

Seed(i, j) ==
    /\ op # "update"
    /\ Cardinality(Alive(grid)) < MaxPatCells
    /\ ~grid.cells[<<i, j>>].alive
    /\ Alive(grid) = {} \/ AliveAdjacent(grid, <<i, j>>) > 0
    /\ grid' = toggle(grid, i, j).self
    /\ op' = "toggle"
    /\ outcome' = toggle(grid, i, j).raised
    /\ n_toggled' = 1
    /\ start' = Alive(grid')
    /\ UNCHANGED <<args, pass, driver>>

NextGeneration ==
    /\ op \in {"toggle", "update"}
    /\ grid' = update(grid)
    /\ op' = "update"
    /\ outcome' = "ok"
    /\ n_toggled' = flipped(grid, grid')
    /\ UNCHANGED <<args, start, pass, driver>>

PatternNext ==
    \/ \E p \in Positions(grid) : Seed(p[1], p[2])
    \/ NextGeneration

PatternSpec == PatternInit /\ [][PatternNext]_vars


(***************************************************************************)
(* update() in steps, the cells taken in any order: first rule is asked    *)
(* about every cell, one cell at a time, then the kept cells are toggled,  *)
(* one at a time.  Grid.update is the run that takes the cells in          *)
(* row-major order.  Between updates the grid is set up by toggle(i, j).   *)
(***************************************************************************)
OrderInit ==
    /\ \E n_rows \in 1..MaxOrderCells, n_cols \in 1..MaxOrderCells :
            /\ n_rows * n_cols <= MaxOrderCells
            /\ grid = Grid(n_rows, n_cols, MaxCellSize)
    /\ op = "init"
    /\ args = <<>>
    /\ outcome = "ok"
    /\ n_toggled = 0
    /\ start = {}
    /\ pending = {}
    /\ collected = {}
    /\ running = TRUE
    /\ paused = TRUE
    /\ pc = "api"

BeginUpdate ==
    /\ pc = "api"
    /\ pc' = "filter"
    /\ op' = "updating"
    /\ outcome' = "ok"
    /\ n_toggled' = 0
    /\ start' = Alive(grid)
    /\ pending' = Positions(grid)
    /\ collected' = {}
    /\ UNCHANGED <<grid, args, running, paused>>

Visit(p) ==
    /\ pc = "filter"
    /\ p \in pending
    /\ grid' = filter_step(grid, collected, grid.cells[p]).self
    /\ collected' = filter_step(grid, collected, grid.cells[p]).kept
    /\ pending' = pending \ {p}
    /\ pc' = IF pending' = {} THEN "toggle" ELSE "filter"
    /\ UNCHANGED <<op, args, outcome, n_toggled, start, running, paused>>

Flip(p) ==
    /\ pc = "toggle"
    /\ p \in collected
    /\ grid' = [grid EXCEPT !.cells[p] = Cell_toggle(@)]
    /\ collected' = collected \ {p}
    /\ n_toggled' = n_toggled + 1
    /\ UNCHANGED <<op, args, outcome, start, pending, driver>>

Return ==
    /\ pc = "toggle"
    /\ collected = {}
    /\ pc' = "api"
    /\ op' = "update"
    /\ UNCHANGED <<grid, args, outcome, n_toggled, start, pass,
                   running, paused>>

OrderNext ==
    \/ \E p \in Positions(grid) : Toggle(p[1], p[2])
    \/ BeginUpdate
    \/ \E p \in Positions(grid) : Visit(p)
    \/ \E p \in Positions(grid) : Flip(p)
    \/ Return

OrderSpec == OrderInit /\ [][OrderNext]_vars

(***************************************************************************)
(* Game: the loop of Game.run.                                             *)
(***************************************************************************)
\* Game.__init__: the window is n_cols * cell_size wide and
\* n_rows * cell_size high.
width(self) == self.n_cols * self.cell_size

height(self) == self.n_rows * self.cell_size

\* The events pygame can deliver, by what handle_events tells apart.
QUIT == [type |-> "QUIT"]

KEYDOWN(key) == [type |-> "KEYDOWN", key |-> key]

MOUSEBUTTONDOWN == [type |-> "MOUSEBUTTONDOWN"]

Events == {QUIT, KEYDOWN("K_SPACE"), KEYDOWN("K_RETURN"), MOUSEBUTTONDOWN}

\* What one pygame.event.get() can return.
EventLists == UNION {[1..n -> Events] : n \in 0..MaxEvents}

\* What pygame.mouse.get_pos() can return: a pixel of the window or one
\* just outside it (the cursor is constrained to the screen only).
MousePositions(self) == (-1..width(self)) \X (-1..height(self))

\* Faulty handler: the QUIT case lacks its break, so the mouse test of the
\* QUIT event and the events after it are still handled.
RECURSIVE handle_events_no_break(_, _, _, _)
handle_events_no_break(game, events, pressed, pos) ==
    IF events = <<>> THEN game
    ELSE LET event == Head(events)
             keyed ==
                IF event.type = "QUIT"
                THEN [game EXCEPT !.running = FALSE]
                ELSE IF event.type = "KEYDOWN" /\ event.key = "K_SPACE"
                THEN [game EXCEPT !.paused = ~game.paused]
                ELSE game
             toggled ==
                toggle(keyed.grid,
                       pos[1] \div keyed.grid.cell_size,
                       pos[2] \div keyed.grid.cell_size)
         IN  IF ~pressed
             THEN handle_events_no_break(keyed, Tail(events), pressed, pos)
             ELSE IF toggled.raised # "ok"
             THEN [keyed EXCEPT !.raised = toggled.raised]
             ELSE handle_events_no_break(
                      [keyed EXCEPT
                          !.grid = toggled.self,
                          !.n_toggled = keyed.n_toggled + 1],
                      Tail(events), pressed, pos)

\* Game.handle_events on the events still to handle, the mouse state being
\* that of the last pump.  game is [grid, running, paused, raised,
\* n_toggled]; an exception raised by grid.toggle ends the handler.
RECURSIVE handle_events(_, _, _, _)
handle_events(game, events, pressed, pos) ==
    IF events = <<>> THEN game
    ELSE LET event == Head(events)
         IN  IF event.type = "QUIT"
             THEN [game EXCEPT !.running = FALSE]
             ELSE LET keyed ==
                        IF event.type = "KEYDOWN" /\ event.key = "K_SPACE"
                        THEN [game EXCEPT !.paused = ~game.paused]
                        ELSE game
                      toggled ==
                        toggle(keyed.grid,
                               pos[1] \div keyed.grid.cell_size,
                               pos[2] \div keyed.grid.cell_size)
                  IN  IF ~pressed
                      THEN handle_events(keyed, Tail(events), pressed, pos)
                      ELSE IF toggled.raised # "ok"
                      THEN [keyed EXCEPT !.raised = toggled.raised]
                      ELSE handle_events(
                               [keyed EXCEPT
                                   !.grid = toggled.self,
                                   !.n_toggled = keyed.n_toggled + 1],
                               Tail(events), pressed, pos)

GameInit ==
    /\ \E n_rows \in 1..MaxGameCells, n_cols \in 1..MaxGameCells,
          cell_size \in 1..MaxCellSize :
            /\ n_rows * n_cols <= MaxGameCells
            /\ grid = Grid(n_rows, n_cols, cell_size)
    /\ op = "init"
    /\ args = <<>>
    /\ outcome = "ok"
    /\ n_toggled = 0
    /\ start = {}
    /\ pending = {}
    /\ collected = {}
    /\ running = TRUE
    /\ paused = TRUE
    /\ pc = "loop"

\* self.handle_events(), entered while self.running holds.  args keeps
\* what the call read from pygame.
HandleEvents ==
    /\ pc = "loop"
    /\ running
    /\ \E events \in EventLists, pressed \in BOOLEAN,
          pos \in MousePositions(grid) :
            LET game == handle_events(
                            [grid |-> grid, running |-> running,
                             paused |-> paused, raised |-> "ok",
                             n_toggled |-> 0],
                            events, pressed, pos)
            IN  /\ grid' = game.grid
                /\ running' = game.running
                /\ paused' = game.paused
                /\ outcome' = game.raised
                /\ n_toggled' = game.n_toggled
                /\ args' = [events |-> events, pressed |-> pressed,
                            pos |-> pos]
                /\ pc' = IF game.raised = "ok" THEN "update" ELSE "crashed"
    /\ op' = "handle_events"
    /\ UNCHANGED <<start, pass>>

\* "if not self.paused: self.grid.update()"
RunUpdate ==
    /\ pc = "update"
    /\ ~paused
    /\ grid' = update(grid)
    /\ op' = "update"
    /\ args' = <<>>
    /\ outcome' = "ok"
    /\ n_toggled' = flipped(grid, grid')
    /\ pc' = "draw"
    /\ UNCHANGED <<start, pass, running, paused>>

\* Faulty step: update() runs although the game is paused.
UpdateWhilePaused ==
    /\ pc = "update"
    /\ paused
    /\ grid' = update(grid)
    /\ op' = "update"
    /\ args' = <<>>
    /\ outcome' = "ok"
    /\ n_toggled' = flipped(grid, grid')
    /\ pc' = "draw"
    /\ UNCHANGED <<start, pass, running, paused>>

\* "if not self.paused" with self.paused true: no update.
SkipUpdate ==
    /\ pc = "update"
    /\ paused
    /\ op' = "no update"
    /\ args' = <<>>
    /\ n_toggled' = 0
    /\ pc' = "draw"
    /\ UNCHANGED <<grid, outcome, start, pass, running, paused>>

\* self.draw(), pygame.display.flip(), self.clock.tick(FPS): the grid is
\* only read.
Draw ==
    /\ pc = "draw"
    /\ op' = "draw"
    /\ pc' = "loop"
    /\ UNCHANGED <<grid, args, outcome, n_toggled, start, pass,
                   running, paused>>

\* The loop ends once self.running is false: pygame.quit().
Quit ==
    /\ pc = "loop"
    /\ ~running
    /\ op' = "quit"
    /\ pc' = "quit"
    /\ UNCHANGED <<grid, args, outcome, n_toggled, start, pass,
                   running, paused>>

GameNext ==
    \/ HandleEvents
    \/ RunUpdate
    \/ SkipUpdate
    \/ Draw
    \/ Quit

GameSpec == GameInit /\ [][GameNext]_vars

(***************************************************************************)
(* C1: one update() is a synchronous generation step: afterwards every     *)
(* cell is alive iff, in the grid before the update, it was alive with 2   *)
(* or 3 alive neighbours or dead with exactly 3.                           *)
(***************************************************************************)
C1_UpdateIsSynchronousStep ==
    [][op' = "update" =>
        /\ Positions(grid') = Positions(grid)
        /\ \A p \in Positions(grid) :
              grid'.cells[p].alive = AliveNext(grid, p)]_vars

\* An update has flipped cells that are adjacent to one another: a birth
\* next to a death, where an in-place pass would read a flipped cell.
C1_Witness ==
    /\ op = "update"
    /\ n_toggled >= 2
    /\ \E p \in Alive(grid) : AliveAdjacent(grid, p) >= 1
    /\ grid.n_rows >= 3 /\ grid.n_cols >= 3

(***************************************************************************)
(* C2: rule(cell) is true exactly when the cell is alive with an alive-    *)
(* neighbour count other than 2 or 3, or dead with a count of exactly 3,   *)
(* for every cell of every grid, edge and corner cells included.           *)
(***************************************************************************)
C2_RuleFlipsExactlyWhen ==
    \A p \in Positions(grid) :
        rule(grid, grid.cells[p]) <=>
            \/ grid.cells[p].alive /\ AliveAdjacent(grid, p) \notin {2, 3}
            \/ ~grid.cells[p].alive /\ AliveAdjacent(grid, p) = 3

\* A grid holding at once a corner cell that must die, a dead edge cell
\* that must be born and an alive cell that must stay.
C2_Witness ==
    /\ \E p \in Positions(grid) :
          /\ IsCorner(grid, p) /\ grid.cells[p].alive
          /\ rule(grid, grid.cells[p])
    /\ \E p \in Positions(grid) :
          /\ IsEdge(grid, p) /\ ~grid.cells[p].alive
          /\ rule(grid, grid.cells[p])
    /\ \E p \in Positions(grid) :
          grid.cells[p].alive /\ ~rule(grid, grid.cells[p])

(***************************************************************************)
(* C3: neighbors(cell) lists exactly the cells of the grid whose indices   *)
(* differ from the cell's by at most 1 in each dimension, the cell itself  *)
(* left out, each once: clipped at the boundary, never wrapping around.    *)
(***************************************************************************)
C3_NeighborsClipped ==
    \A p \in Positions(grid) :
        LET ns == neighbors(grid, grid.cells[p])
        IN  /\ {<<ns[k].i, ns[k].j>> : k \in 1..Len(ns)} = Adjacent(grid, p)
            /\ Len(ns) = Cardinality(Adjacent(grid, p))
            /\ \A k \in 1..Len(ns) : ns[k] = grid.cells[<<ns[k].i, ns[k].j>>]

\* A grid with three rows and columns, where wrapping around would add
\* the opposite edge to the neighbours of a corner cell.
C3_Witness ==
    /\ grid.n_rows >= 3 /\ grid.n_cols >= 3
    /\ Len(neighbors(grid, grid.cells[<<0, 0>>])) = 3
    /\ Alive(grid) # {}

(***************************************************************************)
(* C4 as stated: in every grid, neighbors returns 8 entries for interior   *)
(* cells, 5 for edge cells, 3 for corner cells, and never the cell itself. *)
(***************************************************************************)
NeighborCountByKind(self) ==
    \A p \in Positions(self) :
        LET ns == neighbors(self, self.cells[p])
        IN  /\ IsInterior(self, p) => Len(ns) = 8
            /\ IsEdge(self, p) => Len(ns) = 5
            /\ IsCorner(self, p) => Len(ns) = 3
            /\ \A k \in 1..Len(ns) : <<ns[k].i, ns[k].j>> # p

C4_Original == NeighborCountByKind(grid)

(***************************************************************************)
(* C4 amended: in every grid with at least 2 rows and at least 2 columns,  *)
(* neighbors returns 8 entries for interior cells, 5 for edge cells, 3 for *)
(* corner cells; and in every grid it never returns the cell itself.       *)
(***************************************************************************)
C4_NeighborCounts ==
    /\ (grid.n_rows >= 2 /\ grid.n_cols >= 2) => NeighborCountByKind(grid)
    /\ \A p \in Positions(grid) :
          LET ns == neighbors(grid, grid.cells[p])
          IN  \A k \in 1..Len(ns) : <<ns[k].i, ns[k].j>> # p

\* A grid that has interior, edge and corner cells, some of them alive.
C4_Witness ==
    /\ \E p \in Positions(grid) : IsInterior(grid, p)
    /\ \E p \in Positions(grid) : IsEdge(grid, p)
    /\ Cardinality(Alive(grid)) >= 2

(***************************************************************************)
(* C9: update() on an all-dead grid leaves the grid unchanged, whatever    *)
(* the grid's size; so it stays all-dead under any number of updates.      *)
(***************************************************************************)
C9_AllDeadStaysDead ==
    [][(op' = "update" /\ Alive(grid) = {}) => grid' = grid]_vars

\* An update has run on an all-dead grid of more than one cell.
C9_Witness ==
    /\ op = "update"
    /\ n_toggled = 0
    /\ Alive(grid) = {}
    /\ grid.n_rows * grid.n_cols > 1

(***************************************************************************)
(* C5: Grid.toggle(i, j) is bounds-checked: with 0 <= i < n_rows and       *)
(* 0 <= j < n_cols (so for (0,0) and (n_rows-1, n_cols-1)) it succeeds,    *)
(* and with any other index pair (so for (-1,0) and (n_rows,0)) it ends    *)
(* with the out-of-range outcome and leaves every cell's alive value       *)
(* unchanged.                                                              *)
(***************************************************************************)
InGrid(self, i, j) ==
    /\ 0 <= i /\ i < self.n_rows
    /\ 0 <= j /\ j < self.n_cols

C5_ToggleBoundsChecked ==
    [][op' = "toggle" =>
          IF InGrid(grid, args'[1], args'[2])
          THEN outcome' = "ok"
          ELSE outcome' = IndexError /\ Alive(grid') = Alive(grid)]_vars

(***************************************************************************)
(* C7: the blinker.  With (2,1),(2,2),(2,3) the only alive cells, one      *)
(* update() leaves exactly (1,2),(2,2),(3,2) alive, and one update() of    *)
(* that state leaves exactly (2,1),(2,2),(2,3) alive again: under repeated *)
(* update() the two states alternate for ever.                             *)
(***************************************************************************)
BlinkerH == {<<2, 1>>, <<2, 2>>, <<2, 3>>}

BlinkerV == {<<1, 2>>, <<2, 2>>, <<3, 2>>}

C7_BlinkerAlternates ==
    [][op' = "update" =>
        /\ Alive(grid) = BlinkerH => Alive(grid') = BlinkerV
        /\ Alive(grid) = BlinkerV => Alive(grid') = BlinkerH]_vars

\* The horizontal line was laid out, and updates have brought it back.
C7_Witness ==
    /\ start = BlinkerH
    /\ op = "update"
    /\ n_toggled = 4
    /\ Alive(grid) = BlinkerH

(***************************************************************************)
(* C8: the block.  A grid whose only alive cells form a 2x2 block is the   *)
(* same after any number of update() calls, wherever the block lies, also  *)
(* against an edge or in a corner.                                         *)
(***************************************************************************)
Block(p) ==
    {p, <<p[1] + 1, p[2]>>, <<p[1], p[2] + 1>>, <<p[1] + 1, p[2] + 1>>}

IsBlock(self, cells) ==
    \E p \in Positions(self) :
        cells = Block(p) /\ Block(p) \subseteq Positions(self)

C8_BlockIsStill ==
    IsBlock(grid, start) =>
        /\ Alive(grid) = start
        /\ op = "update" => n_toggled = 0

\* A block laid out in the corner of the grid has gone through an update.
C8_Witness ==
    /\ start = Block(<<0, 0>>)
    /\ op = "update"
    /\ Alive(grid) = start

(***************************************************************************)
(* C10: update() is deterministic and does not depend on the order of the  *)
(* cells: whatever order rule is asked about the cells in and whatever     *)
(* order the kept cells are toggled in, the grid after the update is the   *)
(* one Grid.update (row-major order) yields from the same starting state,  *)
(* so any two runs from identical starting states end identical.           *)
(***************************************************************************)
C10_OrderIndependent ==
    (pc = "api" /\ op = "update") => grid = update(At(grid, start))

\* An update in steps has returned after toggling at least two cells of a
\* grid of at least three cells, some alive cell having an alive neighbour.
C10_Witness ==
    /\ pc = "api" /\ op = "update"
    /\ n_toggled >= 2
    /\ Cardinality(start) >= 3
    /\ \E p \in start : AliveAdjacent(At(grid, start), p) = 2

(***************************************************************************)
(* C6: in the event handler, a mouse position whose integer-divided        *)
(* coordinates, as handed to grid.toggle, lie outside the grid (whatever   *)
(* n_rows and n_cols, square or not) is rejected: no cell is toggled and   *)
(* no out-of-range fault is raised.                                        *)
(***************************************************************************)
C6_OutsideClickRejected ==
    [][(/\ op' = "handle_events"
        /\ args'.pressed
        /\ ~InGrid(grid, args'.pos[1] \div grid.cell_size,
                         args'.pos[2] \div grid.cell_size))
        => (/\ outcome' = "ok"
            /\ n_toggled' = 0
            /\ Alive(grid') = Alive(grid))]_vars


(***************************************************************************)
(* What one handle_events call gets to handle: the events before the first *)
(* QUIT (the loop over the events is left at a QUIT).                      *)
(***************************************************************************)
RECURSIVE BeforeQuit(_)
BeforeQuit(events) ==
    IF events = <<>> \/ Head(events) = QUIT THEN <<>>
    ELSE <<Head(events)>> \o BeforeQuit(Tail(events))

HasQuit(events) == \E k \in 1..Len(events) : events[k] = QUIT

KeyPresses(events, key) ==
    Cardinality({k \in 1..Len(events) : events[k] = KEYDOWN(key)})

\* The index pair handle_events hands to grid.toggle for a mouse position.
CellUnder(self, pos) ==
    <<pos[1] \div self.cell_size, pos[2] \div self.cell_size>>

(***************************************************************************)
(* C11: the pause/resume toggle is bound to the RETURN key, as the legend  *)
(* on screen says: each key-down event for RETURN that is handled negates  *)
(* paused, and no other key changes it.                                    *)
(***************************************************************************)
C11_ReturnTogglesPause ==
    [][(op' = "handle_events" /\ outcome' = "ok") =>
         (paused' # paused) <=>
            (KeyPresses(BeforeQuit(args'.events), "K_RETURN") % 2 = 1)]_vars

(***************************************************************************)
(* C12: while the left button is held over a cell, that cell is toggled    *)
(* exactly once in every frame (every handle_events call of the loop),     *)
(* however many events are pending, also when the event queue is empty.    *)
(***************************************************************************)
C12_OneToggleEachFrame ==
    [][(/\ op' = "handle_events"
        /\ args'.pressed
        /\ InGrid(grid, CellUnder(grid, args'.pos)[1],
                        CellUnder(grid, args'.pos)[2]))
        => (/\ n_toggled' = 1
            /\ Alive(grid') =
                 (Alive(grid) \ {CellUnder(grid, args'.pos)})
                 \cup ({CellUnder(grid, args'.pos)} \ Alive(grid)))]_vars


(***************************************************************************)
(* C13: toggle is its own inverse: Cell.toggle() twice gives the cell      *)
(* back, and Grid.toggle(i, j) called twice in a row with the same         *)
(* in-range index gives back the alive value of that cell and the whole    *)
(* grid as it was before the first call.                                   *)
(***************************************************************************)
C13_ToggleTwiceRestores ==
    [][/\ \A p \in Positions(grid) :
            Cell_toggle(Cell_toggle(grid.cells[p])) = grid.cells[p]
       /\ (/\ op = "toggle" /\ op' = "toggle"
           /\ args' = args
           /\ InGrid(grid, args[1], args[2]))
          => grid' = At(grid, start)]_vars

\* A cell was toggled alive on the all-dead grid and toggled again.
C13_Witness ==
    /\ op = "toggle" /\ outcome = "ok"
    /\ InGrid(grid, args[1], args[2])
    /\ start = {args}
    /\ Alive(grid) = {}
    /\ grid.n_rows * grid.n_cols >= 2

(***************************************************************************)
(* C14: Grid.toggle(i, j) with an in-range index flips the alive value of  *)
(* exactly the cell at (i, j) and leaves every other cell's alive value    *)
(* and n_rows, n_cols and cell_size unchanged.                             *)
(***************************************************************************)
C14_ToggleFlipsOneCell ==
    [][(op' = "toggle" /\ InGrid(grid, args'[1], args'[2])) =>
        /\ outcome' = "ok"
        /\ grid'.n_rows = grid.n_rows
        /\ grid'.n_cols = grid.n_cols
        /\ grid'.cell_size = grid.cell_size
        /\ DOMAIN grid'.cells = DOMAIN grid.cells
        /\ \A p \in Positions(grid) :
              grid'.cells[p] =
                 IF p = args'
                 THEN [grid.cells[p] EXCEPT !.alive = ~grid.cells[p].alive]
                 ELSE grid.cells[p]]_vars

\* A cell was toggled in a grid of several cells, others being alive.
C14_Witness ==
    /\ op = "toggle" /\ outcome = "ok"
    /\ InGrid(grid, args[1], args[2])
    /\ grid.n_rows >= 2 /\ grid.n_cols >= 2
    /\ Cardinality(Alive(grid) \ {args}) >= 2


(***************************************************************************)
(* C15: in every state reached by update(), toggle(i, j) and draw calls    *)
(* the grid holds exactly n_rows x n_cols cells, the cell stored at [i][j] *)
(* carries the indices i and j, and only alive values differ from the      *)
(* state at construction: no cell is added, removed or re-indexed.         *)
(***************************************************************************)
C15_CellsStayInPlace ==
    /\ DOMAIN grid.cells = Positions(grid)
    /\ Cardinality(DOMAIN grid.cells) = grid.n_rows * grid.n_cols
    /\ \A p \in Positions(grid) :
          /\ grid.cells[p].i = p[1]
          /\ grid.cells[p].j = p[2]
          /\ grid.cells[p].rect =
                Rect(p[1] * grid.cell_size, p[2] * grid.cell_size,
                     grid.cell_size, grid.cell_size)
          /\ DOMAIN grid.cells[p] = {"i", "j", "rect", "alive"}
          /\ grid.cells[p].alive \in BOOLEAN

\* A non-square grid with alive cells has been drawn.
C15_Witness ==
    /\ op = "draw"
    /\ grid.n_rows >= 2 /\ grid.n_cols > grid.n_rows
    /\ Cardinality(Alive(grid)) >= 2


(***************************************************************************)
(* C16: the game starts paused, and every iteration of the loop runs in    *)
(* the order handle events, at most one update(), draw: update() runs,     *)
(* once, exactly when paused is false once the iteration's events are      *)
(* handled.  So while the game is paused the grid changes through user     *)
(* toggles only, and no toggle falls inside an update().                   *)
(***************************************************************************)
C16_LoopOrder ==
    [][/\ op = "init" => (paused /\ running /\ pc = "loop")
       /\ pc = "loop" =>
            (op' = "handle_events" /\ pc' \in {"update", "crashed"})
            \/ (op' = "quit" /\ pc' = "quit")
       /\ pc = "update" =>
            /\ pc' = "draw"
            /\ paused' = paused
            /\ IF paused
               THEN op' # "update" /\ grid' = grid
               ELSE op' = "update"
                    /\ \A p \in Positions(grid) :
                          grid'.cells[p].alive = AliveNext(grid, p)
       /\ pc = "draw" => (op' = "draw" /\ pc' = "loop" /\ grid' = grid)
       /\ op' = "update" => pc = "update"
       /\ (paused /\ paused' /\ grid' # grid) => op' = "handle_events"
      ]_vars

\* With the game running, the update of an iteration has killed a cell the
\* user had toggled alive.
C16_Witness ==
    /\ op = "update" /\ pc = "draw"
    /\ ~paused
    /\ n_toggled > 0


\* Grid.draw: the end points of the n_rows + 1 horizontal lines.
row_lines(self) ==
    {[from |-> <<0, i * self.cell_size>>,
      to |-> <<self.n_cols * self.cell_size, i * self.cell_size>>] :
        i \in {range(0, self.n_rows + 1)[k] : k \in 1..(self.n_rows + 1)}}

\* Grid.draw: the end points of the n_cols + 1 vertical lines.
col_lines(self) ==
    {[from |-> <<j * self.cell_size, 0>>,
      to |-> <<j * self.cell_size, self.n_rows * self.cell_size>>] :
        j \in {range(0, self.n_cols + 1)[k] : k \in 1..(self.n_cols + 1)}}

\* The four edges of rect lie on drawn lines of the grid.
InsideLines(self, rect) ==
    /\ \E l \in row_lines(self) : l.from[2] = rect.top
    /\ \E l \in row_lines(self) : l.from[2] = rect.top + rect.height
    /\ \E l \in col_lines(self) : l.from[1] = rect.left
    /\ \E l \in col_lines(self) : l.from[1] = rect.left + rect.width

\* rect lies inside the window the Game opens for the grid.
InsideWindow(self, rect) ==
    /\ 0 <= rect.left /\ rect.left + rect.width <= width(self)
    /\ 0 <= rect.top /\ rect.top + rect.height <= height(self)

\* pygame.Rect.collidepoint: pos is a pixel of rect.
Contains(rect, pos) ==
    /\ rect.left <= pos[1] /\ pos[1] < rect.left + rect.width
    /\ rect.top <= pos[2] /\ pos[2] < rect.top + rect.height

\* pos is a pixel of the window.
InWindow(self, pos) ==
    /\ 0 <= pos[1] /\ pos[1] < width(self)
    /\ 0 <= pos[2] /\ pos[2] < height(self)

(***************************************************************************)
(* C17: the row index i is the vertical position of a cell and the column  *)
(* index j its horizontal position: the rectangle of cell (i, j) has top   *)
(* edge i * cell_size and left edge j * cell_size, and lies inside the     *)
(* window and inside the drawn grid lines, for every n_rows and n_cols.    *)
(***************************************************************************)
C17_RowIsVertical ==
    \A p \in Positions(grid) :
        /\ grid.cells[p].rect.top = p[1] * grid.cell_size
        /\ grid.cells[p].rect.left = p[2] * grid.cell_size
        /\ InsideWindow(grid, grid.cells[p].rect)
        /\ InsideLines(grid, grid.cells[p].rect)

(***************************************************************************)
(* C18: a press of the left button at a pixel inside the window toggles    *)
(* exactly the cell whose rectangle contains that pixel.                   *)
(***************************************************************************)
C18_ClickTogglesCellUnderPixel ==
    [][(/\ op' = "handle_events"
        /\ args'.events = <<MOUSEBUTTONDOWN>>
        /\ args'.pressed
        /\ InWindow(grid, args'.pos))
        => /\ outcome' = "ok"
           /\ \E p \in Positions(grid) :
                 /\ Contains(grid.cells[p].rect, args'.pos)
                 /\ Alive(grid') = (Alive(grid) \ {p}) \cup ({p} \ Alive(grid))
      ]_vars


\* A handler that returned after a QUIT event leaves running false and has
\* handled the events before the QUIT only: one toggle for each of them
\* while the button is held, one pause change for each K_SPACE among them.
QuitDiscardsRest ==
    (op' = "handle_events" /\ outcome' = "ok" /\ HasQuit(args'.events)) =>
        /\ ~running'
        /\ n_toggled' = IF args'.pressed
                        THEN Len(BeforeQuit(args'.events)) ELSE 0
        /\ (paused' # paused) <=>
              (KeyPresses(BeforeQuit(args'.events), "K_SPACE") % 2 = 1)

\* running is false only after a QUIT was handled, stays false, and the
\* iteration then runs to its end: no events are handled any more and the
\* loop is left at the next test of "while self.running".
QuitEndsIteration ==
    /\ (~running' /\ running) =>
          (op' = "handle_events" /\ HasQuit(args'.events))
    /\ ~running =>
          /\ ~running' /\ paused' = paused
          /\ op' \in {"update", "no update", "draw", "quit"}
          /\ pc = "update" => pc' = "draw"
          /\ pc = "draw" => pc' = "loop"
          /\ pc = "loop" => pc' = "quit"

(***************************************************************************)
(* C19 as stated: once a QUIT event is handled running is false, the rest  *)
(* of the poll is discarded, the loop ends with the current iteration, and *)
(* the grid is not mutated any more: no update() and no toggle follows.    *)
(***************************************************************************)
C19_Original ==
    [][/\ QuitDiscardsRest
       /\ QuitEndsIteration
       /\ ~running => (grid' = grid /\ op' # "update")]_vars

(***************************************************************************)
(* C19: once a QUIT event is handled running is false, the rest of the     *)
(* poll is discarded with no further toggle or pause change, and the loop  *)
(* ends with the current iteration.  No toggle follows; the update() of    *)
(* the current iteration still runs, once, when the game is not paused,    *)
(* and is the only change of the grid after the QUIT.                      *)
(***************************************************************************)
C19_QuitEndsLoop ==
    [][/\ QuitDiscardsRest
       /\ QuitEndsIteration
       /\ ~running =>
            /\ (op' = "update") <=> (pc = "update" /\ ~paused)
            /\ \A p \in Positions(grid) :
                  grid'.cells[p].alive =
                     IF op' = "update" THEN AliveNext(grid, p)
                     ELSE grid.cells[p].alive]_vars

\* After a QUIT was handled in a running game, the update() of that
\* iteration has changed the grid.
C19_Witness ==
    /\ op = "update"
    /\ ~running
    /\ n_toggled > 0
    /\ Alive(grid) = {}

====
